---- MODULE Spec2Model ----
(***************************************************************************)
(* Upload pipeline of the VRChat photo uploader: the session/progress map  *)
(* (progress_tracker.rs, errors.rs), the commands that start, cancel and   *)
(* retry a session (commands.rs, retry.rs) and the upload driver           *)
(* (upload_queue.rs) talking to Discord (discord_client.rs).               *)
(***************************************************************************)
EXTENDS Integers, Sequences, FiniteSets, TLC

(***************************************************************************)
(* Bounds of the model.                                                    *)
(***************************************************************************)
\* longest file_paths list of an upload request
MaxFiles == 2
\* number of retry_failed_upload commands issued
MaxRetry == 1
None == "none"

\* image paths a request may name (a path may be named more than once)
Paths == {"a.png", "b.png"}

\* the id of the session the host starts, and the ids commands are given
SessionId == "s1"
SessionIds == {"s1"}

\* embedded metadata and filename timestamp of each file
WorldOf(p) == IF p \in {"a.png", "c.png"} THEN "wrld_A" ELSE "wrld_B"
TimestampOf(p) ==
    CASE p = "a.png" -> 500 [] p = "b.png" -> 100 [] p = "c.png" -> 700 [] OTHER -> 500
\* overflow messages the composer needs for the players of each file
PlayerOverflowOf(p) == IF p = "a.png" THEN 1 ELSE 0

RECURSIVE Flatten(_)
Flatten(ss) == IF ss = <<>> THEN <<>> ELSE Head(ss) \o Flatten(Tail(ss))

Range(s) == {s[i] : i \in 1..Len(s)}

\* decimal rendering of a number, as format!("{}", n) gives it
Digit(d) == CASE d = 0 -> "0" [] d = 1 -> "1" [] d = 2 -> "2" [] d = 3 -> "3"
              [] d = 4 -> "4" [] d = 5 -> "5" [] d = 6 -> "6" [] d = 7 -> "7"
              [] d = 8 -> "8" [] OTHER -> "9"

RECURSIVE NatToString(_)
NatToString(n) == IF n < 10 THEN Digit(n) ELSE NatToString(n \div 10) \o Digit(n % 10)

(***************************************************************************)
(* errors.rs: the progress map and its guarded access.                     *)
(***************************************************************************)
\* safe_progress_update: the session's entry becomes updated when it exists
\* (updated is the closure's result on the entry, read only when it exists)
safe_progress_update(ps, sid, updated) ==
    IF sid \in DOMAIN ps THEN [ps EXCEPT ![sid] = updated] ELSE ps

\* safe_progress_read(...).unwrap_or(true) of is_session_cancelled
is_session_cancelled(ps, sid) ==
    IF sid \in DOMAIN ps THEN ps[sid].session_status = "cancelled" ELSE TRUE

\* AppError::is_retryable on the error kinds the driver meets
is_retryable(kind) == kind \in {"Network", "RateLimit", "UploadFailed", "Io", "ForumChannelError"}

(***************************************************************************)
(* progress_tracker.rs                                                     *)
(***************************************************************************)
mark_session_cancelled(ps, sid) ==
    safe_progress_update(ps, sid, [ps[sid] EXCEPT !.session_status = "cancelled"])

mark_session_completed(ps, sid) ==
    safe_progress_update(ps, sid, [ps[sid] EXCEPT !.session_status = "completed"])

\* a driver that returns without writing the failure
LeaveSessionAsItIs(ps, sid) == ps

mark_session_failed(ps, sid) ==
    safe_progress_update(ps, sid, [ps[sid] EXCEPT !.session_status = "failed"])

update_progress_success(ps, sid, file_path) ==
    safe_progress_update(ps, sid,
        [ps[sid] EXCEPT !.completed = @ + 1,
                  !.successful_uploads = Append(@, file_path),
                  !.failed_uploads = SelectSeq(@, LAMBDA f: f.file_path # file_path)])

\* index of the first failed entry of file_path, 0 when there is none
FirstFailure(failed, file_path) ==
    IF \E i \in 1..Len(failed) : failed[i].file_path = file_path
    THEN CHOOSE i \in 1..Len(failed) :
            /\ failed[i].file_path = file_path
            /\ \A j \in 1..(i - 1) : failed[j].file_path # file_path
    ELSE 0

update_progress_failure(ps, sid, file_path, error, retryable) ==
    safe_progress_update(ps, sid,
        LET p == ps[sid]
            i == FirstFailure(p.failed_uploads, file_path) IN
        IF i # 0
        THEN [p EXCEPT !.completed = @ + 1,
                       !.failed_uploads[i].retry_count = @ + 1,
                       !.failed_uploads[i].error = error,
                       !.failed_uploads[i].is_retryable = retryable]
        ELSE [p EXCEPT !.completed = @ + 1,
                       !.failed_uploads = Append(@,
                            [file_path |-> file_path, error |-> error,
                             retry_count |-> 0, is_retryable |-> retryable])])

\* format!("[Group: {}] {}", group_id, error), kept as its pieces
GroupError(group_id, error) == <<"[Group: ", group_id, "] ">> \o error

update_progress_group_failure(ps, sid, file_path, error, retryable, group_id) ==
    safe_progress_update(ps, sid,
        [ps[sid] EXCEPT !.completed = @ + 1,
                  !.failed_uploads = Append(@,
                       [file_path |-> file_path, error |-> GroupError(group_id, error),
                        retry_count |-> 0, is_retryable |-> retryable])])

(***************************************************************************)
(* image_groups.rs: grouping of the valid files.                           *)
(***************************************************************************)
\* create_metadata_key: world part and time bucket
create_metadata_key(p, time_window_seconds, no_time_limit, group_by_world) ==
    LET world_part == IF group_by_world THEN WorldOf(p) ELSE "any_world" IN
    IF no_time_limit THEN world_part \o "_all"
    ELSE world_part \o "_t" \o NatToString(TimestampOf(p) \div time_window_seconds)

RECURSIVE KeysInOrder(_, _, _, _, _)
\* the group keys in the order their first image appears in the input
KeysInOrder(files, tws, no_time_limit, group_by_world, seen) ==
    IF files = <<>> THEN <<>>
    ELSE LET k == create_metadata_key(Head(files), tws, no_time_limit, group_by_world) IN
         IF k \in seen
         THEN KeysInOrder(Tail(files), tws, no_time_limit, group_by_world, seen)
         ELSE <<k>> \o KeysInOrder(Tail(files), tws, no_time_limit, group_by_world,
                                   seen \cup {k})

\* a group that keeps only the first image of its key
GroupOfFirstImage(files, tws, no_time_limit, group_by_world, k) ==
    LET first == CHOOSE i \in 1..Len(files) :
                    /\ create_metadata_key(files[i], tws, no_time_limit, group_by_world) = k
                    /\ \A j \in 1..(i - 1) :
                          create_metadata_key(files[j], tws, no_time_limit, group_by_world) # k
    IN [group_id |-> k, images |-> <<files[first]>>, timestamp |-> TimestampOf(files[first])]

\* the group of one key: members in input order, timestamp of its first member
GroupOfKey(files, tws, no_time_limit, group_by_world, k) ==
    LET members == SelectSeq(files, LAMBDA p:
                       create_metadata_key(p, tws, no_time_limit, group_by_world) = k)
    IN [group_id |-> k, images |-> members, timestamp |-> TimestampOf(members[1])]

IsSortedByTimestamp(gs) ==
    \A i \in 1..(Len(gs) - 1) : gs[i].timestamp <= gs[i + 1].timestamp

\* group_images_by_metadata: the groups leave the HashMap in any order and are
\* then sorted by timestamp with a stable sort, so every timestamp-sorted
\* arrangement of the groups is a possible result
group_images_by_metadata(files, time_window_minutes, group_by_world) ==
    LET no_time_limit == time_window_minutes = 0
        tws == IF no_time_limit THEN 1 ELSE time_window_minutes * 60
        keys == KeysInOrder(files, tws, no_time_limit, group_by_world, {})
        n == Len(keys)
        perms == {f \in [1..n -> 1..n] : \A i, j \in 1..n : i # j => f[i] # f[j]}
        arranged(f) == [i \in 1..n |->
                          GroupOfKey(files, tws, no_time_limit, group_by_world, keys[f[i]])]
    IN {arranged(f) : f \in {g \in perms : IsSortedByTimestamp(arranged(g))}}

RECURSIVE InsertByTimestamp(_, _)
InsertByTimestamp(sorted, g) ==
    IF sorted = <<>> THEN <<g>>
    ELSE IF Head(sorted).timestamp <= g.timestamp
         THEN <<Head(sorted)>> \o InsertByTimestamp(Tail(sorted), g)
         ELSE <<g>> \o sorted

RECURSIVE StableSortByTimestamp(_, _)
StableSortByTimestamp(gs, acc) ==
    IF gs = <<>> THEN acc
    ELSE StableSortByTimestamp(Tail(gs), InsertByTimestamp(acc, Head(gs)))

\* create_individual_groups_with_metadata: one group per image, stably sorted
create_individual_groups_with_metadata(files) ==
    StableSortByTimestamp(
        [i \in 1..Len(files) |->
            [group_id |-> "individual_" \o NatToString(i - 1) \o "_" \o files[i],
             images |-> <<files[i]>>,
             timestamp |-> TimestampOf(files[i])]],
        <<>>)

\* group.images.chunks(effective_max_images)
RECURSIVE Chunks(_, _)
Chunks(images, n) ==
    IF images = <<>> THEN <<>>
    ELSE IF Len(images) <= n THEN <<images>>
    ELSE <<SubSeq(images, 1, n)>> \o Chunks(SubSeq(images, n + 1, Len(images)), n)

\* chunks.iter().skip(k).flatten()
FlattenFrom(chunks, k) == Flatten(SubSeq(chunks, k + 1, Len(chunks)))

(***************************************************************************)
(* discord_client.rs: what one client call comes back with.                *)
(***************************************************************************)
\* response bodies Discord may answer a successful call with
Responses == { [id |-> "T1", channel_id |-> None],
               [id |-> None, channel_id |-> "T2"],
               [id |-> None, channel_id |-> None] }

NoBody == [id |-> None, channel_id |-> None]

\* extract_thread_id: the string id, else the string channel_id
extract_thread_id(body) ==
    IF body.id # None THEN body.id
    ELSE IF body.channel_id # None THEN body.channel_id
    ELSE None

Ok(body) == [ok |-> TRUE, kind |-> "Ok", status |-> 200, body |-> body]
Err(kind, status) == [ok |-> FALSE, kind |-> kind, status |-> status, body |-> NoBody]

\* statuses a call may end with once send_webhook_with_thread_id gives up
FinalErrorStatuses == {413, 400}

\* send_webhook_with_thread_id: Ok(response text) or Err(UploadFailed)
SendOutcomes == {Ok(b) : b \in Responses} \cup {Err("UploadFailed", st) : st \in FinalErrorStatuses}

\* try_upload_chunk_with_thread_id past its cancellation checks: add_file may
\* fail to read a file (no request is sent), else the request is sent
TryUploadOutcomes == SendOutcomes \cup {Err("Io", 0)}

\* webhook URLs a session may upload to, as their characters: the fixed text in
\* one piece, the digits of the webhook id one by one, the token in one piece
WebhookUrls ==
    { <<"https://discord.com/api/webhooks/", "7", "7", "/token">>,
      <<"https://discord.com/api/webhooks/", "8", "4", "1", "3", "5", "/token">> }

\* Display of the response status: the code and its canonical reason
StatusText(status) ==
    IF status = 413 THEN <<"4", "1", "3", " ", "Payload Too Large">>
    ELSE <<"4", "0", "0", " ", "Bad Request">>

\* e.to_string() of the errors a chunk upload ends with
to_string(result, webhook_url) ==
    IF result.kind = "UploadFailed"
    THEN <<"Upload failed: ", "Discord API error ">> \o StatusText(result.status)
            \o <<" for webhook ">> \o webhook_url \o <<": ", "error_text">>
    ELSE IF result.kind = "Io" THEN <<"IO error: ", "os error">>
    ELSE <<"Upload cancelled during ", "phase", " for session ", "session_id">>

\* str::contains
Contains(text, pattern) ==
    \E i \in 1..(Len(text) - Len(pattern) + 1) :
        SubSeq(text, i, i + Len(pattern) - 1) = pattern

\* e.to_string().contains("413") || e.to_string().contains("Payload Too Large")
ErrorIsPayloadTooLarge(error_string) ==
    Contains(error_string, <<"4", "1", "3">>)
        \/ Contains(error_string, <<"Payload Too Large">>)

\* one request as Discord sees it
Call(group, kind, files, fields, thread_id) ==
    [group |-> group, kind |-> kind, files |-> files,
     fields |-> fields, thread_id |-> thread_id]

\* create_discord_payload: the text fields of a chunk's payload
create_discord_payload(is_first_message, is_forum_post) ==
    IF is_first_message
    THEN IF is_forum_post THEN {"content", "thread_name"} ELSE {"content"}
    ELSE {}

(***************************************************************************)
(* upload_queue.rs: size-based sub-chunks.                                 *)
(***************************************************************************)
\* SAFE_CHUNK_SIZE_BYTES, in MiB
SAFE_CHUNK_SIZE_BYTES == 7

\* sizes, in MiB, a file sent after compression may have
FileSizes == {4, 8}

RECURSIVE SplitFrom(_, _, _, _, _)
\* the loop of split_into_size_chunks over files[i..], sizes taken from size
SplitFrom(files, size, i, current_chunk, current_size) ==
    IF i > Len(files)
    THEN IF current_chunk # <<>> THEN <<current_chunk>> ELSE <<>>
    ELSE IF size[i] > SAFE_CHUNK_SIZE_BYTES
         THEN (IF current_chunk # <<>> THEN <<current_chunk>> ELSE <<>>)
              \o <<<<files[i]>>>> \o SplitFrom(files, size, i + 1, <<>>, 0)
         ELSE IF current_size + size[i] > SAFE_CHUNK_SIZE_BYTES /\ current_chunk # <<>>
              THEN <<current_chunk>> \o SplitFrom(files, size, i + 1, <<files[i]>>, size[i])
              ELSE SplitFrom(files, size, i + 1, Append(current_chunk, files[i]),
                             current_size + size[i])

\* the files sent as one chunk whatever their sizes
OneChunk(files, size) == IF files = <<>> THEN <<>> ELSE <<files>>

split_into_size_chunks(files, size) == SplitFrom(files, size, 1, <<>>, 0)

(***************************************************************************)
(* discord_client.rs: the rate limiter and the retry loop of one request.  *)
(* Times are in milliseconds.                                              *)
(***************************************************************************)
\* most requests the clients send between them
MaxRequests == 2

\* RetryConfig::default
max_retries == 3
base_delay == 1000
max_delay == 120000
exponential_base == 2
\* MIN_DELAY of wait_for_rate_limit
MIN_DELAY == 1000

\* the elapsed time of an instant that was never taken (no limiter entry, no POST yet)
Never == 0 - 1

\* the sessions running in parallel, each with the client its driver created
ClientIds == {"s1", "s2"}

\* steps by which the clock advances
Ticks == {500}

\* HTTP statuses a response may carry
Statuses == {200, 429, 500, 502, 503, 504, 400, 404, 413}

\* retry_after values, in ms, a 429 body may name; None when it names none or
\* the value cannot be parsed
RetryAfterChoices == {500, 2000}

RECURSIVE Pow(_, _)
Pow(b, e) == IF e = 0 THEN 1 ELSE b * Pow(b, e - 1)

\* a retry loop that retries after every failed response
RetryEveryStatus(status_code) == TRUE

should_retry_error(status_code) == status_code \in {429, 500, 502, 503, 504}

\* StatusCode::is_success
is_success(status) == status >= 200 /\ status < 300

calculate_backoff_delay(attempt) ==
    LET delay_ms == base_delay * Pow(exponential_base, attempt - 1) IN
    IF delay_ms < max_delay THEN delay_ms ELSE max_delay

\* the delay before the retry that follows a response: retry_after of a 429
\* body when it parses, else the backoff delay
RetryDelays(status, attempt) ==
    IF status = 429
    THEN RetryAfterChoices \cup {calculate_backoff_delay(attempt)}
    ELSE {calculate_backoff_delay(attempt)}

\* wait_for_rate_limit: the time to sleep given the limiter's entry
wait_for_rate_limit(last_request) ==
    IF last_request # Never /\ last_request < MIN_DELAY
    THEN MIN_DELAY - last_request ELSE 0

\* elapsed times are followed up to MIN_DELAY; beyond it they all behave alike
Elapse(e, d) == IF e = Never THEN Never ELSE IF e + d < MIN_DELAY THEN e + d ELSE MIN_DELAY

\* a client that sent nothing yet
\*   status:       the status of the response the client retries after or
\*                 gave up on
\*   last_request: time since the rate limiter's entry for the webhook
\*   since_post:   time since this client's last POST
\*   gap_same, gap_any: at the last POST, the time since the previous POST of
\*                 this client, and of any client, to the webhook
NewClient ==
    [pc |-> "idle", sleep |-> 0, attempt |-> 0, status |-> 0,
     requests |-> 0, result |-> "none", last_request |-> Never, since_post |-> Never,
     gap_same |-> Never, gap_any |-> Never]

ClientInit == [c \in ClientIds |-> NewClient]

(***************************************************************************)
(* State.                                                                  *)
(***************************************************************************)
VARIABLES
    progress_state,  \* the progress map: session id -> UploadProgress
    request,         \* the UploadRequest the session was started with
    drv,             \* the driver task: its position and local variables
    calls,           \* the requests sent to Discord, in order
    events,          \* the terminal events emitted to the host, in order
    temp_files,      \* files present in the secure temp directory
    removed,         \* paths remove_file was called with
    nretry,          \* retry_single_upload tasks that ran on an existing session
    client,          \* the DiscordClient of each session, its requests and the clock
    cmd_result,      \* the last command the host issued and what it returned
    pure_call        \* a function of the program applied by itself: input and output

vars == <<progress_state, request, drv, calls, events, temp_files, removed, nretry,
          client, cmd_result, pure_call>>

EmptyMap == [s \in {} |-> 0]

\* file_paths lists of a request: non-empty, at most MaxFiles long
RECURSIVE SeqsOfLen(_, _)
SeqsOfLen(S, n) ==
    IF n = 0 THEN {<<>>}
    ELSE {Append(q, x) : q \in SeqsOfLen(S, n - 1), x \in S}

FilePathLists == UNION {SeqsOfLen(Paths, n) : n \in 1..MaxFiles}

\* values of the request's max_images_per_message the model draws
MaxImagesChoices == {1, 2}
\* values of grouping_time_window (minutes) the model draws
TimeWindows == {10}

NoRequest ==
    [file_paths |-> <<>>, group_by_metadata |-> FALSE, max_images_per_message |-> 1,
     is_forum_channel |-> FALSE, include_player_names |-> FALSE,
     grouping_time_window |-> 0, group_by_world |-> FALSE, webhook_url |-> <<>>]

DrvInit ==
    [pc |-> "idle", i |-> 0, valid_files |-> <<>>, groups |-> <<>>, group_index |-> 0,
     chunks |-> <<>>, chunk_index |-> 0, first_message |-> FALSE, thread_id |-> None,
     overflow |-> 0, text_fields |-> {}, k |-> 0, rec_files |-> <<>>,
     rec_error |-> <<>>, result |-> Ok(NoBody), group_success |-> FALSE,
     compressed_paths |-> <<>>, cleanup_paths |-> <<>>, sub_chunks |-> <<>>,
     s |-> 0, next_tmp |-> 0]

\* no command was issued yet
NoCommand == [command |-> "none", session_id |-> None, result |-> "none"]

\* no function applied by itself
NoCall == [fn |-> "none", input |-> <<>>, output |-> <<>>, done |-> FALSE]

\* the program before any command
ProgramInit ==
    /\ progress_state = EmptyMap
    /\ request = NoRequest
    /\ drv = DrvInit
    /\ calls = <<>>
    /\ events = <<>>
    /\ temp_files = {}
    /\ removed = {}
    /\ nretry = 0
    /\ client = ClientInit
    /\ cmd_result = NoCommand

Init == ProgramInit /\ pure_call = NoCall

Cancelled == is_session_cancelled(progress_state, SessionId)

Group == drv.groups[drv.group_index]
Chunk == drv.chunks[drv.chunk_index]
IsFirstGroup == drv.group_index = 1

(***************************************************************************)
(* commands.rs                                                             *)
(***************************************************************************)
\* upload_images: the request passed validation; the session is inserted and
\* the driver task spawned
upload_images ==
    /\ drv.pc = "idle"
    /\ \E fps \in FilePathLists, gbm \in BOOLEAN, mx \in MaxImagesChoices,
          forum \in BOOLEAN, ipn \in BOOLEAN, tw \in TimeWindows, gbw \in BOOLEAN,
          url \in WebhookUrls :
          \* group_by_world is read only when grouping is on: it keeps its default then
          /\ (gbm \/ gbw)
          /\ request' = [file_paths |-> fps, group_by_metadata |-> gbm,
                         max_images_per_message |-> mx, is_forum_channel |-> forum,
                         include_player_names |-> ipn, grouping_time_window |-> tw,
                         group_by_world |-> gbw, webhook_url |-> url]
          /\ progress_state' = (SessionId :>
                [total_images |-> Len(fps), completed |-> 0, failed_uploads |-> <<>>,
                 successful_uploads |-> <<>>, session_status |-> "active"])
                @@ progress_state
    /\ drv' = [drv EXCEPT !.pc = "queue_start"]
    /\ UNCHANGED <<calls, events, temp_files, removed, nretry, client, cmd_result, pure_call>>

\* a cancel that takes every session of the map, whatever its status
IsKnownSession(ps, sid) == sid \in DOMAIN ps

\* cancel_upload_session: the session is in the map and its status is "active"
IsActiveSession(ps, sid) == sid \in DOMAIN ps /\ ps[sid].session_status = "active"

\* the Result cancel_upload_session returns
cancel_result(ps, sid) ==
    IF IsActiveSession(ps, sid) THEN "Ok"
    ELSE IF sid \in DOMAIN ps THEN "Session is not active"
    ELSE "Session not found"

\* what cancel_upload_session does to the map and the events
CancelSession(sid) ==
    IF IsActiveSession(progress_state, sid)
    THEN /\ progress_state' = [progress_state EXCEPT ![sid].session_status = "cancelled"]
         /\ events' = Append(events, "upload-cancelled")
    ELSE UNCHANGED <<progress_state, events>>

\* cancel_upload_session, its Result dropped
cancel_upload_session(sid) ==
    /\ CancelSession(sid)
    /\ UNCHANGED <<request, drv, calls, temp_files, removed, nretry, client, cmd_result, pure_call>>

(***************************************************************************)
(* retry.rs                                                                *)
(***************************************************************************)
\* upload_image_chunk_with_thread_id as retry_single_upload calls it: on its
\* own, empty progress map under the session id "retry"
RetryUploadOutcomes ==
    LET dummy_progress_state == EmptyMap IN
    IF is_session_cancelled(dummy_progress_state, "retry")
    THEN {Err("UploadCancelled", 0)}
    ELSE SendOutcomes

\* retry_single_upload, spawned by retry_failed_upload once the command's own
\* validation of the file passed
retry_single_upload(sid, file_path) ==
    /\ nretry < MaxRetry
    /\ nretry' = IF sid \in DOMAIN progress_state THEN nretry + 1 ELSE nretry
    /\ \E valid \in BOOLEAN :
        IF ~valid
        THEN progress_state' = update_progress_failure(progress_state, sid, file_path,
                                    <<"Validation">>, FALSE)
        ELSE \E r \in RetryUploadOutcomes :
                IF r.ok
                THEN progress_state' = update_progress_success(progress_state, sid, file_path)
                ELSE progress_state' = update_progress_failure(progress_state, sid,
                                            file_path, <<r.kind>>, is_retryable(r.kind))
    /\ UNCHANGED <<request, drv, calls, events, temp_files, removed, client, cmd_result, pure_call>>

(***************************************************************************)
(* upload_queue.rs: process_upload_queue                                   *)
(***************************************************************************)
\* the driver marks the session cancelled and returns
StopCancelled ==
    /\ progress_state' = mark_session_cancelled(progress_state, SessionId)
    /\ drv' = [drv EXCEPT !.pc = "done"]
    /\ UNCHANGED <<events>>

\* initial cancellation check
queue_start ==
    /\ drv.pc = "queue_start"
    /\ IF Cancelled
       THEN StopCancelled
       ELSE /\ drv' = [drv EXCEPT !.pc = "validate", !.i = 1, !.valid_files = <<>>]
            /\ UNCHANGED <<progress_state, events>>
    /\ UNCHANGED <<request, calls, temp_files, removed, nretry, client, cmd_result, pure_call>>

\* one round of the validation loop: file_paths[i]
validate_file ==
    /\ drv.pc = "validate"
    /\ LET file_path == request.file_paths[drv.i]
           next_pc == IF drv.i = Len(request.file_paths) THEN "validated" ELSE "validate"
       IN IF (drv.i - 1) % 5 = 0 /\ Cancelled
          THEN StopCancelled
          ELSE /\ \E valid \in BOOLEAN :
                    IF valid
                    THEN /\ drv' = [drv EXCEPT !.pc = next_pc, !.i = @ + 1,
                                               !.valid_files = Append(@, file_path)]
                         /\ UNCHANGED progress_state
                    ELSE /\ drv' = [drv EXCEPT !.pc = next_pc, !.i = @ + 1]
                         /\ progress_state' = update_progress_failure(progress_state,
                                SessionId, file_path, <<"Validation">>, FALSE)
               /\ UNCHANGED events
    /\ UNCHANGED <<request, calls, temp_files, removed, nretry, client, cmd_result, pure_call>>

\* a driver that groups every file of the request, validated or not
GroupListsOfAllFiles ==
    IF request.group_by_metadata
    THEN group_images_by_metadata(request.file_paths, request.grouping_time_window,
                                  request.group_by_world)
    ELSE {create_individual_groups_with_metadata(request.file_paths)}

\* the groups of the valid files
GroupLists ==
    IF request.group_by_metadata
    THEN group_images_by_metadata(drv.valid_files, request.grouping_time_window,
                                  request.group_by_world)
    ELSE {create_individual_groups_with_metadata(drv.valid_files)}

\* after validation: nothing valid, cancelled, or group the files
after_validation ==
    /\ drv.pc = "validated"
    /\ IF drv.valid_files = <<>>
       THEN /\ progress_state' = mark_session_completed(progress_state, SessionId)
            /\ events' = Append(events, "upload-completed")
            /\ drv' = [drv EXCEPT !.pc = "done"]
       ELSE IF Cancelled
       THEN StopCancelled
       ELSE /\ \E gl \in GroupLists :
                  drv' = [drv EXCEPT !.pc = "group_start", !.groups = gl, !.group_index = 1]
            /\ UNCHANGED <<progress_state, events>>
    /\ UNCHANGED <<request, calls, temp_files, removed, nretry, client, cmd_result, pure_call>>

\* the cancellation check before each group
group_start ==
    /\ drv.pc = "group_start"
    /\ IF Cancelled
       THEN StopCancelled
       ELSE /\ drv' = [drv EXCEPT !.pc = "group_enter"]
            /\ UNCHANGED <<progress_state, events>>
    /\ UNCHANGED <<request, calls, temp_files, removed, nretry, client, cmd_result, pure_call>>

\* a driver that goes on to the next group whatever the group function returned
ContinueAfterFailure(d) ==
    IF d.group_index = Len(d.groups)
    THEN [d EXCEPT !.pc = "final_check"]
    ELSE [d EXCEPT !.pc = "group_start", !.group_index = @ + 1]

\* where the group loop goes once the group function returned uncancelled:
\* a failed group ends the loop, the last group leaves it, else the next group
NextAfterGroup(d) ==
    IF ~d.group_success THEN [d EXCEPT !.pc = "mark_failed"]
    ELSE IF d.group_index = Len(d.groups)
    THEN [d EXCEPT !.pc = "final_check"]
    ELSE [d EXCEPT !.pc = "group_start", !.group_index = @ + 1]

\* after process_image_group_with_failure_handling returned
after_group ==
    /\ drv.pc = "after_group"
    /\ IF Cancelled
       THEN StopCancelled
       ELSE /\ drv' = NextAfterGroup(drv)
            /\ UNCHANGED <<progress_state, events>>
    /\ UNCHANGED <<request, calls, temp_files, removed, nretry, client, cmd_result, pure_call>>

\* a group failed: mark_session_failed and emit upload-failed
mark_failed ==
    /\ drv.pc = "mark_failed"
    /\ progress_state' = mark_session_failed(progress_state, SessionId)
    /\ events' = Append(events, "upload-failed")
    /\ drv' = [drv EXCEPT !.pc = "done"]
    /\ UNCHANGED <<request, calls, temp_files, removed, nretry, client, cmd_result, pure_call>>

\* the cancellation check after the last group
final_check ==
    /\ drv.pc = "final_check"
    /\ IF Cancelled
       THEN StopCancelled
       ELSE /\ drv' = [drv EXCEPT !.pc = "mark_completed"]
            /\ UNCHANGED <<progress_state, events>>
    /\ UNCHANGED <<request, calls, temp_files, removed, nretry, client, cmd_result, pure_call>>

\* mark_session_completed and emit upload-completed
mark_completed ==
    /\ drv.pc = "mark_completed"
    /\ progress_state' = mark_session_completed(progress_state, SessionId)
    /\ events' = Append(events, "upload-completed")
    /\ drv' = [drv EXCEPT !.pc = "done"]
    /\ UNCHANGED <<request, calls, temp_files, removed, nretry, client, cmd_result, pure_call>>

(***************************************************************************)
(* upload_queue.rs: process_image_group_with_failure_handling              *)
(***************************************************************************)
\* the group function returns false
Returned(d, success) ==
    [DrvInit EXCEPT !.pc = "after_group", !.group_success = success,
                    !.groups = d.groups, !.group_index = d.group_index,
                    !.next_tmp = d.next_tmp]

ReturnFalse(d) == Returned(d, FALSE)

\* the failure loop over files is entered (or skipped when files is empty)
RecordFailures(d, files, error) ==
    IF files = <<>> THEN ReturnFalse(d)
    ELSE [d EXCEPT !.pc = "record_failures", !.rec_files = files,
                   !.rec_error = error, !.k = 1]

\* the failure loop starting one chunk too late: chunks.skip(chunk_index + 1)
RemainingSkippingFailedChunk(chunks, chunk_index) == FlattenFrom(chunks, chunk_index)

\* the files the Err arm of the chunk upload marks failed: chunks.skip(chunk_index)
RemainingOnError(chunks, chunk_index) == FlattenFrom(chunks, chunk_index - 1)

\* the files marked failed when thread_id extraction failed: chunks.skip(chunk_index + 1)
RemainingAfterChunk(chunks, chunk_index) == FlattenFrom(chunks, chunk_index)

\* the Err arm of the chunk upload
ChunkError(d, result) ==
    RecordFailures([d EXCEPT !.result = result],
                   RemainingOnError(d.chunks, d.chunk_index),
                   <<"Forum channel group upload failed: ", result.kind>>)

\* the user's max_images_per_message whatever the channel
UserMaxImages(is_forum_channel, max_images_per_message) == max_images_per_message

\* effective_max_images
effective_max_images_of(is_forum_channel, max_images_per_message) ==
    IF is_forum_channel /\ max_images_per_message > 10
    THEN 10 ELSE max_images_per_message

\* effective_max_images of the running session
EffectiveMaxImages ==
    effective_max_images_of(request.is_forum_channel, request.max_images_per_message)

\* entry of the group function: cancellation check, then the chunks
group_enter ==
    /\ drv.pc = "group_enter"
    /\ drv' = IF Cancelled THEN ReturnFalse(drv)
              ELSE [drv EXCEPT !.pc = "chunk_start",
                               !.chunks = Chunks(Group.images, EffectiveMaxImages),
                               !.chunk_index = 1, !.first_message = TRUE,
                               !.thread_id = None]
    /\ UNCHANGED <<progress_state, request, calls, events, temp_files, removed, nretry, client, cmd_result, pure_call>>

\* overflow_messages of create_discord_payload for the group's players
OverflowMessages ==
    IF drv.first_message /\ request.include_player_names
    THEN IF \E i \in 1..Len(Group.images) : PlayerOverflowOf(Group.images[i]) > 0
         THEN CHOOSE n \in {PlayerOverflowOf(Group.images[i]) : i \in 1..Len(Group.images)} :
                 \A i \in 1..Len(Group.images) : PlayerOverflowOf(Group.images[i]) <= n
         ELSE 0
    ELSE 0

\* top of the chunk loop: cancellation check and the chunk's payload
chunk_start ==
    /\ drv.pc = "chunk_start"
    /\ IF Cancelled
       THEN drv' = ReturnFalse(drv)
       ELSE LET n == OverflowMessages IN
              drv' = [drv EXCEPT
                        !.pc = IF drv.first_message /\ n > 0 THEN "send_text"
                               ELSE "chunk_prepare",
                        !.overflow = n,
                        !.text_fields = create_discord_payload(drv.first_message,
                                            request.is_forum_channel /\ IsFirstGroup)]
    /\ UNCHANGED <<progress_state, request, calls, events, temp_files, removed, nretry, client, cmd_result, pure_call>>

\* send_forum_text_message: the main text with thread_name, no thread_id
send_forum_text_message(group, thread_name) ==
    Call(group, "text", <<>>,
         IF thread_name THEN {"content", "thread_name"} ELSE {"content"}, None)

\* send_text_message: a text with the given thread_id in the URL
send_text_message(group, thread_id) == Call(group, "text", <<>>, {"content"}, thread_id)

\* the main text is sent before the images because there are overflow messages
send_text ==
    /\ drv.pc = "send_text"
    /\ IF request.is_forum_channel /\ IsFirstGroup
       THEN /\ calls' = Append(calls, send_forum_text_message(drv.group_index,
                                          "thread_name" \in drv.text_fields))
            /\ \E r \in SendOutcomes :
                 IF r.ok
                 THEN LET tid == extract_thread_id(r.body) IN
                      drv' = [drv EXCEPT !.thread_id = tid, !.text_fields = {}, !.k = 1,
                                         !.pc = IF tid # None THEN "send_overflow"
                                                ELSE "chunk_prepare"]
                 ELSE drv' = RecordFailures(drv, Chunk,
                                 <<"Failed to create forum thread: ", r.kind>>)
       ELSE /\ calls' = Append(calls, send_text_message(drv.group_index, drv.thread_id))
            /\ \E ok \in BOOLEAN :
                 drv' = [drv EXCEPT !.text_fields = {}, !.k = 1,
                                    !.pc = IF ok THEN "send_overflow" ELSE "chunk_prepare"]
    /\ UNCHANGED <<progress_state, request, events, temp_files, removed, nretry, client, cmd_result, pure_call>>

\* one overflow message, into the thread when there is one; its result is only logged
send_overflow ==
    /\ drv.pc = "send_overflow"
    /\ calls' = Append(calls, send_text_message(drv.group_index, drv.thread_id))
    /\ drv' = [drv EXCEPT !.k = @ + 1,
                          !.pc = IF drv.k = drv.overflow THEN "chunk_prepare"
                                 ELSE "send_overflow"]
    /\ UNCHANGED <<progress_state, request, events, temp_files, removed, nretry, client, cmd_result, pure_call>>

\* the forum continuation check and the cancellation checks of the progress loop
chunk_prepare ==
    /\ drv.pc = "chunk_prepare"
    /\ drv' = IF request.is_forum_channel /\ drv.chunk_index > 1 /\ drv.thread_id = None
              THEN RecordFailures(drv, RemainingOnError(drv.chunks, drv.chunk_index),
                        <<"Forum continuation missing thread_id">>)
              ELSE IF Cancelled THEN ReturnFalse(drv)
              ELSE [drv EXCEPT !.pc = "upload_chunk"]
    /\ UNCHANGED <<progress_state, request, calls, events, temp_files, removed, nretry, client, cmd_result, pure_call>>

(***************************************************************************)
(* upload_queue.rs: upload_image_chunk_with_thread_id and the compression  *)
(* path                                                                    *)
(***************************************************************************)
\* the response text is read again only for the thread_id of a forum group's
\* first message; everywhere else the result is kept without its body
Kept(r) ==
    IF r.ok /\ ~(request.is_forum_channel /\ drv.first_message /\ drv.thread_id = None)
    THEN Ok(NoBody) ELSE r

\* the request try_upload_chunk_with_thread_id sends for files
ImageCall(files, fields) == Call(drv.group_index, "images", files, fields, drv.thread_id)

\* the calls log after a try whose outcome is r: add_file failing sends nothing
CallsAfterTry(r, files, fields) ==
    IF r.kind = "Io" THEN calls ELSE Append(calls, ImageCall(files, fields))

\* first attempt of the chunk, without compression
upload_chunk ==
    /\ drv.pc = "upload_chunk"
    /\ IF Cancelled
       THEN /\ drv' = [drv EXCEPT !.pc = "first_error", !.result = Err("UploadCancelled", 0)]
            /\ UNCHANGED calls
       ELSE \E r \in TryUploadOutcomes :
              /\ calls' = CallsAfterTry(r, Chunk, drv.text_fields)
              /\ drv' = [drv EXCEPT !.result = Kept(r),
                                    !.pc = IF r.ok THEN "chunk_ok" ELSE "first_error"]
    /\ UNCHANGED <<progress_state, request, events, temp_files, removed, nretry, client, cmd_result, pure_call>>

\* the first attempt failed: cancelled, payload too large, or a plain failure
first_error ==
    /\ drv.pc = "first_error"
    /\ drv' = IF Cancelled THEN ChunkError(drv, Err("UploadCancelled", 0))
              ELSE IF ErrorIsPayloadTooLarge(to_string(drv.result, request.webhook_url))
              THEN [drv EXCEPT !.pc = "compress", !.k = 1, !.compressed_paths = <<>>,
                               !.cleanup_paths = <<>>]
              ELSE ChunkError(drv, drv.result)
    /\ UNCHANGED <<progress_state, request, calls, events, temp_files, removed, nretry, client, cmd_result, pure_call>>

\* the paths the cancellation cleanup calls remove_file with
AllCleanupPaths(cleanup_paths) == Range(cleanup_paths)

\* the paths the cleanup after the upload calls remove_file with
CompressedCleanupPaths(cleanup_paths, file_paths) ==
    {t \in Range(cleanup_paths) : t \notin Range(file_paths)}

\* a failed compression that puts the original on the cleanup list
CleanupPathsWithOriginal(cleanup_paths, file_path) == Append(cleanup_paths, file_path)

\* the Err arm of compress_image: only compressed_paths gets the original path
CleanupPathsOnCompressError(cleanup_paths, file_path) == cleanup_paths

\* remove_file on every path of cleanup_paths
RemoveAll(cleanup_paths) == temp_files \ Range(cleanup_paths)

\* a cleanup that leaves the compressed files where they are
RemoveNothing(cleanup_paths, file_paths) == temp_files

\* remove_file on the paths of cleanup_paths that are not among file_paths
RemoveCompressed(cleanup_paths, file_paths) ==
    temp_files \ {t \in Range(cleanup_paths) : t \notin Range(file_paths)}

\* the path create_secure_temp_file hands out for the n-th temp file
TempPath(n) == "tmp_" \o NatToString(n)

\* one round of the compression loop: file k of the chunk
compress ==
    /\ drv.pc = "compress"
    /\ IF Cancelled
       THEN /\ temp_files' = RemoveAll(drv.cleanup_paths)
            /\ removed' = removed \cup AllCleanupPaths(drv.cleanup_paths)
            /\ drv' = ChunkError(drv, Err("UploadCancelled", 0))
       ELSE LET next_pc == IF drv.k = Len(Chunk) THEN "compressed_upload" ELSE "compress"
            IN \E compressed \in BOOLEAN :
                 IF compressed
                 THEN LET t == TempPath(drv.next_tmp) IN
                      /\ temp_files' = temp_files \cup {t}
                      /\ UNCHANGED removed
                      /\ drv' = [drv EXCEPT !.pc = next_pc, !.k = @ + 1,
                                            !.next_tmp = @ + 1,
                                            !.compressed_paths = Append(@, t),
                                            !.cleanup_paths = Append(@, t)]
                 ELSE /\ UNCHANGED <<temp_files, removed>>
                      /\ drv' = [drv EXCEPT !.pc = next_pc, !.k = @ + 1,
                                            !.compressed_paths = Append(@, Chunk[drv.k]),
                                            !.cleanup_paths =
                                                CleanupPathsOnCompressError(@, Chunk[drv.k])]
    /\ UNCHANGED <<progress_state, request, calls, events, nretry, client, cmd_result, pure_call>>

\* the compressed files are sent; on 413 they are split by size
compressed_upload ==
    /\ drv.pc = "compressed_upload"
    /\ IF Cancelled
       THEN /\ temp_files' = RemoveAll(drv.cleanup_paths)
            /\ removed' = removed \cup AllCleanupPaths(drv.cleanup_paths)
            /\ drv' = ChunkError(drv, Err("UploadCancelled", 0))
            /\ UNCHANGED calls
       ELSE \E r \in TryUploadOutcomes :
              /\ calls' = CallsAfterTry(r, drv.compressed_paths, drv.text_fields)
              /\ IF r.ok
                 THEN /\ temp_files' = RemoveCompressed(drv.cleanup_paths, Chunk)
                      /\ removed' = removed \cup CompressedCleanupPaths(drv.cleanup_paths, Chunk)
                      /\ drv' = [drv EXCEPT !.pc = "chunk_ok", !.result = Kept(r)]
                 ELSE IF ErrorIsPayloadTooLarge(to_string(r, request.webhook_url))
                 THEN /\ UNCHANGED <<temp_files, removed>>
                      /\ \E size \in [1..Len(drv.compressed_paths) -> FileSizes] :
                           drv' = [drv EXCEPT !.pc = "sub_chunk", !.s = 1,
                                      !.sub_chunks = split_into_size_chunks(
                                                         drv.compressed_paths, size)]
                 ELSE /\ temp_files' = RemoveCompressed(drv.cleanup_paths, Chunk)
                      /\ removed' = removed \cup CompressedCleanupPaths(drv.cleanup_paths, Chunk)
                      /\ drv' = ChunkError(drv, r)
    /\ UNCHANGED <<progress_state, request, events, nretry, client, cmd_result, pure_call>>

\* one size-based sub-chunk; only the first carries the text fields
sub_chunk ==
    /\ drv.pc = "sub_chunk"
    /\ IF Cancelled
       THEN /\ temp_files' = RemoveCompressed(drv.cleanup_paths, Chunk)
            /\ removed' = removed \cup CompressedCleanupPaths(drv.cleanup_paths, Chunk)
            /\ drv' = ChunkError(drv, Err("UploadCancelled", 0))
            /\ UNCHANGED calls
       ELSE \E r \in TryUploadOutcomes :
              /\ calls' = CallsAfterTry(r, drv.sub_chunks[drv.s],
                                        IF drv.s = 1 THEN drv.text_fields ELSE {})
              /\ IF ~r.ok
                 THEN /\ temp_files' = RemoveCompressed(drv.cleanup_paths, Chunk)
                      /\ removed' = removed \cup CompressedCleanupPaths(drv.cleanup_paths, Chunk)
                      /\ drv' = ChunkError(drv, r)
                 ELSE IF drv.s = Len(drv.sub_chunks)
                 THEN /\ temp_files' = RemoveCompressed(drv.cleanup_paths, Chunk)
                      /\ removed' = removed \cup CompressedCleanupPaths(drv.cleanup_paths, Chunk)
                      /\ drv' = [drv EXCEPT !.pc = "chunk_ok", !.result = Kept(r)]
                 ELSE /\ UNCHANGED <<temp_files, removed>>
                      /\ drv' = [drv EXCEPT !.s = @ + 1]
    /\ UNCHANGED <<progress_state, request, events, nretry, client, cmd_result, pure_call>>

\* the Ok arm of the chunk upload: cancellation check, thread_id extraction
chunk_ok ==
    /\ drv.pc = "chunk_ok"
    /\ drv' =
        IF Cancelled THEN ReturnFalse(drv)
        ELSE IF request.is_forum_channel /\ drv.first_message /\ drv.thread_id = None
        THEN LET tid == extract_thread_id(drv.result.body) IN
             IF tid = None /\ Len(drv.chunks) > 1
             THEN RecordFailures(drv, RemainingAfterChunk(drv.chunks, drv.chunk_index),
                      <<"Forum channel thread_id extraction failed - response missing thread info">>)
             ELSE [drv EXCEPT !.thread_id = tid, !.pc = "record_success", !.k = 1]
        ELSE [drv EXCEPT !.pc = "record_success", !.k = 1]
    /\ UNCHANGED <<progress_state, request, calls, events, temp_files, removed, nretry, client, cmd_result, pure_call>>

\* one round of the success loop: file k of the chunk; after the last file the
\* chunk loop goes on or the group function returns true
record_success ==
    /\ drv.pc = "record_success"
    /\ progress_state' = update_progress_success(progress_state, SessionId, Chunk[drv.k])
    /\ drv' = IF drv.k < Len(Chunk) THEN [drv EXCEPT !.k = @ + 1]
              ELSE IF drv.chunk_index < Len(drv.chunks)
              THEN [drv EXCEPT !.pc = "chunk_start", !.first_message = FALSE,
                               !.chunk_index = @ + 1]
              ELSE Returned(drv, TRUE)
    /\ UNCHANGED <<request, calls, events, temp_files, removed, nretry, client, cmd_result, pure_call>>

\* one round of a failure loop: file k of rec_files; after the last file the
\* group function returns false
record_failures ==
    /\ drv.pc = "record_failures"
    /\ progress_state' = update_progress_group_failure(progress_state, SessionId,
                            drv.rec_files[drv.k], drv.rec_error, TRUE, Group.group_id)
    /\ drv' = IF drv.k < Len(drv.rec_files) THEN [drv EXCEPT !.k = @ + 1]
              ELSE ReturnFalse(drv)
    /\ UNCHANGED <<request, calls, events, temp_files, removed, nretry, client, cmd_result, pure_call>>

(***************************************************************************)
(* The system: the driver task, and the host's commands at any moment.     *)
(***************************************************************************)
Driver ==
    \/ queue_start \/ validate_file \/ after_validation \/ group_start
    \/ group_enter \/ chunk_start \/ send_text \/ send_overflow \/ chunk_prepare
    \/ upload_chunk \/ first_error \/ compress \/ compressed_upload \/ sub_chunk
    \/ chunk_ok \/ record_success \/ record_failures
    \/ after_group \/ mark_failed \/ final_check \/ mark_completed

Next ==
    \/ upload_images
    \/ Driver
    \/ \E sid \in SessionIds : cancel_upload_session(sid)
    \/ \E sid \in SessionIds, p \in Paths : retry_single_upload(sid, p)

Spec == Init /\ [][Next]_vars

(***************************************************************************)
(* discord_client.rs: send_webhook_with_thread_id of each session's client *)
(***************************************************************************)
\* the time since the last POST any client sent to the webhook
\* requests begun so far, over all clients
RECURSIVE SumRequests(_)
SumRequests(cs) ==
    IF cs = {} THEN 0
    ELSE LET c == CHOOSE x \in cs : TRUE IN client[c].requests + SumRequests(cs \ {c})

RequestsLeft == SumRequests(ClientIds) < MaxRequests

SinceAnyPost ==
    LET posted == {client[c].since_post : c \in ClientIds} \ {Never} IN
    IF posted = {} THEN Never
    ELSE CHOOSE e \in posted : \A f \in posted : e <= f

\* send_webhook_with_thread_id is called: wait_for_rate_limit, attempt = 0
begin_request(c) ==
    /\ client[c].pc = "idle"
    /\ RequestsLeft
    /\ client' = [client EXCEPT ![c].pc = "sleep",
                                ![c].sleep = wait_for_rate_limit(client[c].last_request),
                                ![c].attempt = 0, ![c].status = 0,
                                ![c].result = "none", ![c].requests = @ + 1]
    /\ UNCHANGED <<progress_state, request, drv, calls, events, temp_files, removed, nretry,
                   cmd_result, pure_call>>

\* the sleep is over: the POST is sent
post(c) ==
    /\ client[c].pc = "sleep"
    /\ client[c].sleep = 0
    /\ client' = [client EXCEPT ![c].pc = "inflight", ![c].status = 0,
                                ![c].gap_same = client[c].since_post,
                                ![c].gap_any = SinceAnyPost,
                                ![c].since_post = 0]
    /\ UNCHANGED <<progress_state, request, drv, calls, events, temp_files, removed, nretry,
                   cmd_result, pure_call>>

\* send().await? fails: no response, the error leaves the function at once
transport_error(c) ==
    /\ client[c].pc = "inflight"
    /\ client' = [client EXCEPT ![c].pc = "idle", ![c].result = "Err"]
    /\ UNCHANGED <<progress_state, request, drv, calls, events, temp_files, removed, nretry,
                   cmd_result, pure_call>>

\* a response arrives: update_rate_limit, then success, retry or error
respond(c) ==
    /\ client[c].pc = "inflight"
    /\ \E status \in Statuses :
        LET attempt == client[c].attempt + 1 IN
        IF is_success(status)
        THEN client' = [client EXCEPT ![c].pc = "idle", ![c].result = "Ok",
                                      ![c].last_request = 0]
        ELSE IF should_retry_error(status) /\ attempt <= max_retries
        THEN \E delay \in RetryDelays(status, attempt) :
                client' = [client EXCEPT ![c].pc = "sleep", ![c].sleep = delay,
                                         ![c].attempt = attempt, ![c].status = status,
                                         ![c].last_request = 0]
        ELSE client' = [client EXCEPT ![c].pc = "idle", ![c].result = "Err",
                                      ![c].attempt = attempt, ![c].status = status,
                                      ![c].last_request = 0]
    /\ UNCHANGED <<progress_state, request, drv, calls, events, temp_files, removed, nretry,
                   cmd_result, pure_call>>

\* time passes: sleeps run down, elapsed times grow
tick ==
    /\ RequestsLeft \/ \E c \in ClientIds : client[c].pc # "idle"
    /\ \E d \in Ticks :
        client' = [c \in ClientIds |->
                     [client[c] EXCEPT !.sleep = IF @ > d THEN @ - d ELSE 0,
                                       !.last_request = Elapse(@, d),
                                       !.since_post = Elapse(@, d)]]
    /\ UNCHANGED <<progress_state, request, drv, calls, events, temp_files, removed, nretry,
                   cmd_result, pure_call>>

ClientNext ==
    \/ \E c \in ClientIds : begin_request(c)
    \/ \E c \in ClientIds : post(c)
    \/ \E c \in ClientIds : transport_error(c)
    \/ \E c \in ClientIds : respond(c)
    \/ tick

ClientSpec == Init /\ [][ClientNext]_vars

(***************************************************************************)
(* Properties.                                                             *)
(***************************************************************************)
Started == SessionId \in DOMAIN progress_state
Session == progress_state[SessionId]
TerminalStatuses == {"completed", "failed", "cancelled"}
FailedPaths(p) == [i \in 1..Len(p.failed_uploads) |-> p.failed_uploads[i].file_path]
Occurrences(s, x) == Cardinality({i \in 1..Len(s) : s[i] = x})
CallsOfGroup(g) == SelectSeq(calls, LAMBDA c: c.group = g)

\* the failure loop of the Err arm of the chunk upload is running
InChunkErrorLoop ==
    /\ drv.pc = "record_failures"
    /\ drv.rec_error[1] = "Forum channel group upload failed: "

\* the loop is over exactly the files of the failed chunk and of every later chunk
C1_LoopCoversFailedAndLaterChunks ==
    InChunkErrorLoop =>
        /\ drv.rec_files = Flatten(SubSeq(drv.chunks, drv.chunk_index, Len(drv.chunks)))
        /\ drv.k \in 1..Len(drv.rec_files)

\* the loop starts at its first file; each round appends one retryable entry for
\* file k whose error starts "[Group: <group_id>] ", touches neither the other
\* entries nor successful_uploads, and moves to file k + 1 or returns false
C1_LoopStep ==
    /\ (~InChunkErrorLoop /\ InChunkErrorLoop') => drv'.k = 1
    /\ (InChunkErrorLoop /\ drv' # drv) =>
        LET e == Session'.failed_uploads[Len(Session'.failed_uploads)] IN
        /\ Len(Session'.failed_uploads) = Len(Session.failed_uploads) + 1
        /\ SubSeq(Session'.failed_uploads, 1, Len(Session.failed_uploads))
              = Session.failed_uploads
        /\ e.file_path = drv.rec_files[drv.k]
        /\ e.is_retryable = TRUE
        /\ SubSeq(e.error, 1, 3) = <<"[Group: ", drv.groups[drv.group_index].group_id, "] ">>
        /\ Session'.successful_uploads = Session.successful_uploads
        /\ IF drv.k < Len(drv.rec_files)
           THEN /\ InChunkErrorLoop'
                /\ drv'.k = drv.k + 1
                /\ drv'.rec_files = drv.rec_files
           ELSE drv'.pc = "after_group" /\ ~drv'.group_success

\* C1: when a chunk of a group fails, every file of the failed chunk and of all
\* later chunks of the group is recorded in failed_uploads as retryable with an
\* error starting "[Group: <group_id>] ", and no file of an earlier, successful
\* chunk is recorded as failed
C1_GroupFailureRecordsRemainingFiles ==
    [](C1_LoopCoversFailedAndLaterChunks) /\ [][C1_LoopStep]_vars

\* a group of two chunks returned false: its first chunk is recorded successful
\* and the file of its second chunk failed with the group error
C1_Witness ==
    /\ drv.pc = "after_group"
    /\ ~drv.group_success
    /\ Len(drv.groups) = 1
    /\ Len(Session.successful_uploads) = 1
    /\ Len(Session.failed_uploads) = 1
    /\ LET e == Session.failed_uploads[1] IN
       /\ e.file_path # Session.successful_uploads[1]
       /\ e.is_retryable
       /\ SubSeq(e.error, 1, 4) = <<"[Group: ", drv.groups[1].group_id, "] ",
                                    "Forum channel group upload failed: ">>

\* C2: after a group failed in a session that is not cancelled, no request of a
\* later group is sent, the status becomes failed and upload-failed is emitted
\* exactly once
C2_FailedGroupStopsSession ==
    /\ drv.pc = "mark_failed" =>
          /\ \A i \in 1..Len(calls) : calls[i].group <= drv.group_index
          /\ Occurrences(events, "upload-failed") = 0
    /\ (drv.pc = "done" /\ drv.groups # <<>> /\ ~drv.group_success
            /\ Session.session_status # "cancelled") =>
          /\ Session.session_status = "failed"
          /\ Occurrences(events, "upload-failed") = 1
          /\ Occurrences(events, "upload-completed") = 0
          /\ \A i \in 1..Len(calls) : calls[i].group <= drv.group_index

\* the first of two groups failed after a request was sent for it
C2_Witness ==
    /\ drv.pc = "done"
    /\ Len(drv.groups) = 2
    /\ drv.group_index = 1
    /\ ~drv.group_success
    /\ Session.session_status = "failed"
    /\ calls # <<>>
    /\ events = <<"upload-failed">>

\* C3: in a forum group with two or more Discord calls, every call after the
\* first carries one and the same thread_id
C3_ForumCallsShareThreadId ==
    request.is_forum_channel =>
        \A g \in 1..Len(drv.groups) :
            LET cs == CallsOfGroup(g) IN
            Len(cs) >= 2 =>
                \E t \in {"T1", "T2"} : \A i \in 2..Len(cs) : cs[i].thread_id = t

\* C4: completed = |successful_uploads| + |failed_uploads| in every state
C4_CompletedCountsRecordedFiles ==
    Started =>
        Session.completed = Len(Session.successful_uploads) + Len(Session.failed_uploads)

\* C5: at a terminal status every supplied path is in exactly one of
\* successful_uploads and failed_uploads
C5_TerminalEveryPathInExactlyOneList ==
    (Started /\ Session.session_status \in TerminalStatuses) =>
        \A p \in Range(request.file_paths) :
            (p \in Range(Session.successful_uploads)) # (p \in Range(FailedPaths(Session)))

\* C6: a path appears at most once in successful_uploads and failed_uploads together
C6_PathRecordedAtMostOnce ==
    Started =>
        \A p \in Paths :
            Occurrences(Session.successful_uploads, p)
                + Occurrences(FailedPaths(Session), p) <= 1

\* C7: the status only goes from active to a terminal status and never changes
\* once terminal
C7_StatusStep ==
    (Started /\ Started') =>
        \/ Session'.session_status = Session.session_status
        \/ /\ Session.session_status = "active"
           /\ Session'.session_status \in TerminalStatuses

C7_TerminalStatusIsFinal == [][C7_StatusStep]_vars

\* C8: once cancel_upload_session succeeded, the driver emits neither
\* upload-completed nor upload-failed afterwards and the final status is cancelled
C8_CancelWins ==
    /\ \A i, j \in 1..Len(events) :
          (i < j /\ events[i] = "upload-cancelled")
              => events[j] \notin {"upload-completed", "upload-failed"}
    /\ (drv.pc = "done" /\ "upload-cancelled" \in Range(events))
          => Session.session_status = "cancelled"

\* C9: once the status is terminal no operation changes completed,
\* successful_uploads or failed_uploads
C9_CountersStep ==
    (Started /\ Session.session_status \in TerminalStatuses) =>
        /\ Session'.completed = Session.completed
        /\ Session'.successful_uploads = Session.successful_uploads
        /\ Session'.failed_uploads = Session.failed_uploads

C9_TerminalSessionIsFrozen == [][C9_CountersStep]_vars

\* C10: completed <= total_images in every state
C10_CompletedAtMostTotal ==
    Started => Session.completed <= Session.total_images

\* C11: whenever the status is completed or failed, completed = total_images
C11_FinishedSessionCountsEveryFile ==
    (Started /\ Session.session_status \in {"completed", "failed"}) =>
        Session.completed = Session.total_images

\* C12: two consecutive requests of one session to the webhook are at least
\* 1000 ms apart
C12_SessionRequestsOneSecondApart ==
    \A c \in ClientIds : client[c].gap_same = Never \/ client[c].gap_same >= 1000

\* C13: two consecutive requests to the webhook, from either of two parallel
\* sessions, are at least 1000 ms apart
C13_ParallelSessionsShareRateLimit ==
    \A c \in ClientIds : client[c].gap_any = Never \/ client[c].gap_any >= 1000

RetriedStatuses == {429, 500, 502, 503, 504}

\* a request is never in its fifth attempt
C14_AtMostFourAttempts ==
    \A c \in ClientIds :
        /\ client[c].attempt <= 4
        /\ client[c].pc \in {"sleep", "inflight"} => client[c].attempt <= 3

\* a response leads to a re-send only when its status is one of the retried
\* statuses; a re-send follows such a response; a failed response of any other
\* status ends the request with an error
C14_RetryStep ==
    \A c \in ClientIds :
        /\ (client[c].pc = "inflight" /\ client'[c].pc = "sleep") =>
              /\ client'[c].status \in RetriedStatuses
              /\ client'[c].attempt = client[c].attempt + 1
        /\ (client[c].pc = "sleep" /\ client'[c].pc = "inflight" /\ client[c].attempt > 0) =>
              client[c].status \in RetriedStatuses
        /\ (client[c].pc = "inflight" /\ client'[c].pc = "idle"
                /\ client'[c].status # 0 /\ client'[c].status \notin RetriedStatuses) =>
              /\ client'[c].result = "Err"
              /\ client'[c].attempt = client[c].attempt + 1

\* C14: a request is re-sent only after 429, 500, 502, 503 or 504 and at most 3
\* times; any other failed status ends it with an error at once
C14_RetriesOnlyAfterRetriedStatuses ==
    [](C14_AtMostFourAttempts) /\ [][C14_RetryStep]_vars

\* a request gave up after its fourth attempt, and another after a single
\* attempt that got a status that is not retried
C14_Witness ==
    \E c, d \in ClientIds :
        /\ client[c].result = "Err" /\ client[c].attempt = 4
        /\ client[c].status \in RetriedStatuses
        /\ client[d].result = "Err" /\ client[d].attempt = 1
        /\ client[d].status \in {400, 404, 413}

\* C15: a chunk enters the compression path only when its POST came back with
\* HTTP 413 (the only response whose text says "Payload Too Large"); a chunk
\* whose POST failed with any other status, whatever the webhook URL, is failed
\* without compression; and the first attempt of every chunk, also one that
\* follows a compressed chunk, sends the chunk's original files.
C15_Step ==
    /\ (drv.pc = "first_error" /\ drv'.pc = "compress") => drv.result.status = 413
    /\ (drv.pc = "first_error" /\ drv' # drv /\ ~Cancelled
            /\ drv.result.kind = "UploadFailed" /\ drv.result.status # 413) =>
            drv'.pc = "record_failures"
    /\ (drv.pc = "upload_chunk" /\ calls' # calls) =>
            calls'[Len(calls')].files = Chunk

C15_CompressionOnlyAfterPayloadTooLarge == [][C15_Step]_vars

ExtractionFailed == <<"Forum channel thread_id extraction failed - response missing thread info">>

\* C16: in a forum session, when the thread_id extraction fails on a group of
\* more than one chunk, no further Discord call is made for the group, and,
\* once the group's failures are recorded, every image of the group that is not
\* in successful_uploads has a retryable entry in failed_uploads.
C16_Step ==
    (drv.pc = "record_failures" /\ drv.rec_error = ExtractionFailed /\ drv' # drv) =>
        /\ calls' = calls
        /\ drv'.pc # "record_failures" =>
             \A p \in Range(Group.images) :
                \/ p \in Range(progress_state'[SessionId].successful_uploads)
                \/ \E i \in 1..Len(progress_state'[SessionId].failed_uploads) :
                      /\ progress_state'[SessionId].failed_uploads[i].file_path = p
                      /\ progress_state'[SessionId].failed_uploads[i].is_retryable

C16_ExtractionFailureRecordsWholeGroup == [][C16_Step]_vars

\* C17: in a forum session, when the response to a group's first Discord call
\* has neither id nor channel_id, the group fails, also when it has a single
\* chunk: the driver goes on to record the group's images as failed (or
\* returns), never to record the images of the chunk as successful.
C17_Step ==
    (/\ drv.pc = "chunk_ok" /\ drv' # drv
     /\ request.is_forum_channel /\ ~Cancelled
     /\ Len(CallsOfGroup(drv.group_index)) = 1
     /\ extract_thread_id(drv.result.body) = None) =>
        drv'.pc # "record_success"

C17_UnusableFirstResponseFailsGroup == [][C17_Step]_vars

\* errors a retry may record without contradicting C18: the image is not valid,
\* or the webhook did not answer with success
RetryExcuses == {<<"Validation">>, <<"UploadFailed">>, <<"Network">>, <<"Io">>}

\* C18: a retry of a single file either records a failure that comes from the
\* file's validation or from the webhook's answer, or (the image is valid and
\* the webhook answers with success) it sends one request with that one image
\* and leaves the path in successful_uploads and out of failed_uploads.
C18_Step ==
    (nretry' # nretry) =>
        LET p == progress_state[SessionId]
            q == progress_state'[SessionId]
        IN \/ \E i \in 1..Len(q.failed_uploads) :
                 /\ \A j \in 1..Len(p.failed_uploads) :
                        p.failed_uploads[j] # q.failed_uploads[i]
                 /\ q.failed_uploads[i].error \in RetryExcuses
           \/ /\ Len(calls') = Len(calls) + 1
              /\ Len(calls'[Len(calls')].files) = 1
              /\ calls'[Len(calls')].files[1] \in Range(q.successful_uploads)
              /\ \A i \in 1..Len(q.failed_uploads) :
                     q.failed_uploads[i].file_path # calls'[Len(calls')].files[1]

C18_RetryOfValidImageSucceeds == [][C18_Step]_vars

(***************************************************************************)
(* commands.rs: the commands with the Result they return to the host.      *)
(***************************************************************************)
\* webhook ids of the requests: none selected, one of the database, one that
\* the database does not have
WebhookIds == {0, 1, 2}

\* the webhooks table: id to url
Webhooks == (1 :> <<"https://discord.com/api/webhooks/", "7", "7", "/token">>)

\* the database calls of upload_images: all succeed, or the named one fails
DatabaseOutcomes ==
    {"ok", "get_webhook_by_id", "create_upload_session", "update_webhook_usage"}

\* max_images_per_message of the requests, 0 and 11 being out of range
CommandMaxImages == {0, 1, 2, 11}

\* a session id no upload_images ever handed out
UnknownSessionId == "s0"

CommandResult(command, sid, result) ==
    [command |-> command, session_id |-> sid, result |-> result]

\* the checks of upload_images that come before the session is inserted
EarlyRejection(file_paths, webhook_id, max_images, is_forum_channel, files_valid) ==
    LET effective_max_images == IF is_forum_channel /\ max_images > 10 THEN 10
                                ELSE max_images
    IN IF file_paths = <<>> THEN "No files provided"
       ELSE IF webhook_id <= 0 THEN "Please select a webhook before starting upload"
       ELSE IF effective_max_images = 0 \/ effective_max_images > 10
       THEN "Validation error: max_images - Must be between 1 and 10"
       ELSE IF ~files_valid THEN "validate_image_file"
       ELSE "none"

\* upload_images with its Result: the early checks, the insertion of the
\* session, the webhook lookup and the database writes, the spawn of the driver
invoke_upload_images ==
    /\ drv.pc = "idle"
    /\ SessionId \notin DOMAIN progress_state
    /\ \E fps \in FilePathLists \cup {<<>>}, webhook_id \in WebhookIds,
          mx \in CommandMaxImages, gbm \in BOOLEAN, forum \in BOOLEAN,
          ipn \in BOOLEAN, tw \in TimeWindows, files_valid \in BOOLEAN,
          db \in DatabaseOutcomes :
          LET early == EarlyRejection(fps, webhook_id, mx, forum, files_valid) IN
          IF early # "none"
          THEN /\ cmd_result' = CommandResult("upload_images", None, early)
               /\ UNCHANGED <<progress_state, request, drv>>
          ELSE /\ progress_state' = (SessionId :>
                     [total_images |-> Len(fps), completed |-> 0,
                      failed_uploads |-> <<>>, successful_uploads |-> <<>>,
                      session_status |-> "active"])
                     @@ progress_state
               /\ IF webhook_id \notin DOMAIN Webhooks
                  THEN /\ cmd_result' = CommandResult("upload_images", None,
                                            "Selected webhook not found")
                       /\ UNCHANGED <<request, drv>>
                  ELSE IF db # "ok"
                  THEN /\ cmd_result' = CommandResult("upload_images", None, db)
                       /\ UNCHANGED <<request, drv>>
                  ELSE /\ cmd_result' = CommandResult("upload_images", SessionId, "Ok")
                       /\ request' = [file_paths |-> fps, group_by_metadata |-> gbm,
                                      max_images_per_message |-> mx,
                                      is_forum_channel |-> forum,
                                      include_player_names |-> ipn,
                                      grouping_time_window |-> tw,
                                      group_by_world |-> TRUE,
                                      webhook_url |-> Webhooks[webhook_id]]
                       /\ drv' = [drv EXCEPT !.pc = "queue_start"]
    /\ UNCHANGED <<calls, events, temp_files, removed, nretry, client, pure_call>>

\* cancel_upload_session with its Result
invoke_cancel_upload_session(sid) ==
    /\ CancelSession(sid)
    /\ cmd_result' = CommandResult("cancel_upload_session", sid,
                                   cancel_result(progress_state, sid))
    /\ UNCHANGED <<request, drv, calls, temp_files, removed, nretry, client, pure_call>>

CommandNext ==
    \/ invoke_upload_images
    \/ Driver
    \/ \E sid \in SessionIds \cup {UnknownSessionId} : invoke_cancel_upload_session(sid)

CommandSpec == Init /\ [][CommandNext]_vars

\* C19: cancel(session_id) returns Ok only when the session is in the map with
\* status active; when it returns an error (the session is terminal or not in
\* the map) the step changes neither the map nor anything else and emits no
\* event.
C19_Step ==
    (cmd_result' # cmd_result /\ cmd_result'.command = "cancel_upload_session") =>
        LET sid == cmd_result'.session_id IN
        IF cmd_result'.result = "Ok"
        THEN /\ sid \in DOMAIN progress_state
             /\ progress_state[sid].session_status = "active"
             /\ progress_state'[sid].session_status = "cancelled"
        ELSE /\ ~(sid \in DOMAIN progress_state
                    /\ progress_state[sid].session_status = "active")
             /\ UNCHANGED <<progress_state, events, request, drv, calls, temp_files, removed>>

C19_CancelOnlyActiveSessions == [][C19_Step]_vars

\* a cancel of a session that had completed came back with an error
C19_Witness ==
    /\ cmd_result = CommandResult("cancel_upload_session", SessionId,
                                  "Session is not active")
    /\ Started /\ Session.session_status = "completed"
    /\ "upload-cancelled" \notin Range(events)

\* C20: when upload_images is rejected with an error, the progress map has no
\* entry for a new session id afterwards.
C20_RejectedStartCreatesNoSession ==
    (cmd_result.command = "upload_images" /\ cmd_result.result # "Ok") =>
        SessionId \notin DOMAIN progress_state

\* C21: a failure of a persistence call never aborts a session: when
\* upload_images met a failure of create_upload_session or of
\* update_webhook_usage, the upload driver of the session has been started.
C21_PersistenceFailureKeepsDriver ==
    (/\ cmd_result.command = "upload_images"
     /\ cmd_result.result \in {"create_upload_session", "update_webhook_usage"}) =>
        (Started /\ drv.pc # "idle")

\* the images of a list of groups, in group order
GroupedFiles(gl) == Flatten([i \in 1..Len(gl) |-> gl[i].images])

\* C22, the files sent: every file of a Discord call is a file of the groups
\* (which the steps below show to be the validated files) or a temp file made
\* from one.
C22_OnlyValidFilesSent ==
    \A c \in 1..Len(calls) : \A f \in Range(calls[c].files) :
        f \in Paths => f \in Range(GroupedFiles(drv.groups))

\* C22, the steps: a file that fails the driver's validation gets a
\* non-retryable entry in failed_uploads, no call is made for it and the loop
\* goes on; after the loop, unless the session was cancelled, the driver groups
\* exactly the valid files, each as often as it was given.
C22_Step ==
    /\ (drv.pc = "validate" /\ drv' # drv /\ drv'.pc # "done"
          /\ drv'.valid_files = drv.valid_files) =>
            /\ \E i \in 1..Len(progress_state'[SessionId].failed_uploads) :
                  /\ progress_state'[SessionId].failed_uploads[i].file_path
                        = request.file_paths[drv.i]
                  /\ ~progress_state'[SessionId].failed_uploads[i].is_retryable
            /\ calls' = calls
            /\ drv'.pc = IF drv.i = Len(request.file_paths) THEN "validated"
                         ELSE "validate"
    /\ (drv.pc = "validated" /\ drv' # drv /\ drv.valid_files # <<>> /\ ~Cancelled) =>
            /\ drv'.pc = "group_start"
            /\ \A p \in Paths : Occurrences(GroupedFiles(drv'.groups), p)
                                    = Occurrences(drv.valid_files, p)

C22_InvalidFileIsSkipped == []C22_OnlyValidFilesSent /\ [][C22_Step]_vars

\* a session completed with one file refused by validation and another uploaded
C22_Witness ==
    /\ Started /\ nretry = 0 /\ Session.session_status = "completed"
    /\ \E i \in 1..Len(Session.failed_uploads) :
          /\ Session.failed_uploads[i].error = <<"Validation">>
          /\ ~Session.failed_uploads[i].is_retryable
          /\ Session.failed_uploads[i].file_path \notin Range(GroupedFiles(drv.groups))
    /\ Session.successful_uploads # <<>>
    /\ calls # <<>>

\* the steps of upload_compressed_chunk_with_thread_id
CompressionSteps == {"compress", "compressed_upload", "sub_chunk"}

\* C23: the temp files made by compression exist only while the compressed
\* upload of their chunk is in progress, and are then the ones of its
\* cleanup_paths: once the chunk's upload has resolved (success, upload failure,
\* failure of a sub-chunk, cancellation) none is left.
C23_TempFilesGoneWhenChunkResolves ==
    IF drv.pc \in CompressionSteps
    THEN temp_files \subseteq Range(drv.cleanup_paths)
    ELSE temp_files = {}

\* a size-based sub-chunk of compressed files failed and the chunk resolved
C23_Witness ==
    /\ drv.pc = "record_failures"
    /\ drv.result.kind = "UploadFailed"
    /\ drv.cleanup_paths # <<>> /\ drv.sub_chunks # <<>> /\ drv.s >= 1
    /\ temp_files = {}

\* C24: upload_images accepts a request only when its max_images_per_message
\* is in 1..10, for forum and non-forum requests alike.
C24_AcceptedUserMaxInRange ==
    (cmd_result.command = "upload_images" /\ cmd_result.result = "Ok") =>
        request.max_images_per_message \in 1..10

(***************************************************************************)
(* image_groups.rs by itself: the grouper applied to drawn lists of files. *)
(***************************************************************************)
\* longest list of files given to the grouper
MaxGrouped == 3

\* the files given to the grouper: a.png and c.png of one world, 200 seconds
\* apart on either side of a multiple of 600; d.png of another world with the
\* timestamp of a.png
GrouperPaths == {"a.png", "b.png", "c.png", "d.png"}

GrouperInputs ==
    [files : UNION {SeqsOfLen(GrouperPaths, n) : n \in 1..MaxGrouped},
     time_window_minutes : {0, 10},
     group_by_world : BOOLEAN]

GrouperInit ==
    /\ ProgramInit
    /\ pure_call \in [fn : {"none"}, input : GrouperInputs, output : {<<>>},
                      done : {FALSE}]

\* group_images_by_metadata applied to the input
apply_group_images_by_metadata ==
    /\ ~pure_call.done
    /\ \E gl \in group_images_by_metadata(pure_call.input.files,
                    pure_call.input.time_window_minutes,
                    pure_call.input.group_by_world) :
          pure_call' = [pure_call EXCEPT !.fn = "group_images_by_metadata",
                                         !.output = gl, !.done = TRUE]
    /\ UNCHANGED <<progress_state, request, drv, calls, events, temp_files, removed, nretry,
                   client, cmd_result>>

\* create_individual_groups_with_metadata applied to the input's files
apply_create_individual_groups ==
    /\ ~pure_call.done
    /\ pure_call' = [pure_call EXCEPT
                        !.fn = "create_individual_groups_with_metadata",
                        !.output = create_individual_groups_with_metadata(
                                       pure_call.input.files),
                        !.done = TRUE]
    /\ UNCHANGED <<progress_state, request, drv, calls, events, temp_files, removed, nretry,
                   client, cmd_result>>

GrouperNext == apply_group_images_by_metadata \/ apply_create_individual_groups

GrouperSpec == GrouperInit /\ [][GrouperNext]_vars

\* largest difference between two timestamps of files
TimestampSpan(files) ==
    CHOOSE d \in {TimestampOf(p) - TimestampOf(q) : p, q \in Range(files)} :
        \A p, q \in Range(files) : TimestampOf(p) - TimestampOf(q) <= d

\* C25: the grouper with group_by_world = true and a window of 10 minutes,
\* given images of one world whose timestamps span at most 10 minutes, yields
\* exactly one group.
C25_OneWorldWithinWindowIsOneGroup ==
    (/\ pure_call.done /\ pure_call.fn = "group_images_by_metadata"
     /\ pure_call.input.group_by_world /\ pure_call.input.time_window_minutes = 10
     /\ \A p, q \in Range(pure_call.input.files) : WorldOf(p) = WorldOf(q)
     /\ TimestampSpan(pure_call.input.files) <= 10 * 60) =>
        Len(pure_call.output) = 1

\* position in files of the first occurrence of p
FirstIndexOf(files, p) ==
    CHOOSE i \in 1..Len(files) : files[i] = p /\ \A j \in 1..(i - 1) : files[j] # p

\* C26: for a list of distinct files, the groups come out sorted by timestamp
\* ascending, and groups with equal timestamps in the order in which they were
\* first created from the input (the order of their first images in the input).
C26_GroupOrderIsStable ==
    (/\ pure_call.done
     /\ \A i, j \in 1..Len(pure_call.input.files) :
            i # j => pure_call.input.files[i] # pure_call.input.files[j]) =>
        LET out == pure_call.output
            files == pure_call.input.files
        IN /\ IsSortedByTimestamp(out)
           /\ \A i, j \in 1..Len(out) :
                 (i < j /\ out[i].timestamp = out[j].timestamp) =>
                    FirstIndexOf(files, out[i].images[1])
                        <= FirstIndexOf(files, out[j].images[1])

(***************************************************************************)
(* security.rs by itself: validate_webhook_url applied to drawn URLs.      *)
(***************************************************************************)
\* characters of the drawn URLs, each a string naming one char: ASCII digit,
\* ASCII letter, underscore, hyphen, dot, U+0663 (a decimal digit that is not
\* ASCII), U+00E9 (a letter that is not ASCII)
AsciiDigits == {"7"}
AsciiWordChars == {"7", "a", "_"}
UnicodeDigits == AsciiDigits \cup {"U+0663"}
UnicodeWordChars == AsciiWordChars \cup {"U+0663", "U+00E9"}

\* len chars, the first one being odd_char unless that is "7"
Chars(len, odd_char) == [i \in 1..len |-> IF i = 1 THEN odd_char ELSE "7"]

\* a URL in its parts
UrlInputs ==
    [lead : {<<>>, <<" ">>}, trail : {<<>>, <<" ">>},
     scheme : {"https://", "http://"},
     host : {"discord.com", "discordapp.com", "evil.example"},
     path : {"/api/webhooks/", "/api/hooks/"},
     id : {Chars(n, c) : n \in {16, 17, 19, 20}, c \in {"7", "a", "U+0663"}},
     token : {Chars(n, c) : n \in {59, 60, 80, 81},
                            c \in {"7", "-", ".", "U+00E9"}}]

\* url.trim(): the URL without the whitespace around it
trim(url) == [url EXCEPT !.lead = <<>>, !.trail = <<>>]

\* bytes of a char in UTF-8
Utf8Len(c) == IF c \in {"U+0663", "U+00E9"} THEN 2 ELSE 1

RECURSIVE SumUtf8Len(_)
SumUtf8Len(chars) ==
    IF chars = <<>> THEN 0 ELSE Utf8Len(Head(chars)) + SumUtf8Len(Tail(chars))

\* str::len of the fixed parts
PartLen(part) ==
    CASE part = "https://" -> 8 [] part = "http://" -> 7
      [] part = "discord.com" -> 11 [] part = "discordapp.com" -> 14
      [] part = "evil.example" -> 12
      [] part = "/api/webhooks/" -> 14 [] OTHER -> 11

\* str::len: the length in bytes
ByteLen(url) ==
    Len(url.lead) + PartLen(url.scheme) + PartLen(url.host) + PartLen(url.path)
        + SumUtf8Len(url.id) + 1 + SumUtf8Len(url.token) + Len(url.trail)

\* webhook_pattern.is_match:
\* ^https://(discord\.com|discordapp\.com)/api/webhooks/\d{17,19}/[\w\-]{60,80}$
\* where \d and \w are the Unicode classes of the regex crate
webhook_pattern_is_match(url) ==
    /\ url.lead = <<>> /\ url.trail = <<>>
    /\ url.scheme = "https://"
    /\ url.host \in {"discord.com", "discordapp.com"}
    /\ url.path = "/api/webhooks/"
    /\ Len(url.id) \in 17..19
    /\ \A i \in 1..Len(url.id) : url.id[i] \in UnicodeDigits
    /\ Len(url.token) \in 60..80
    /\ \A i \in 1..Len(url.token) : url.token[i] \in UnicodeWordChars \cup {"-"}

validate_webhook_url(url) ==
    LET trimmed == trim(url) IN
    IF ByteLen(trimmed) = 0 THEN "Validation"
    ELSE IF ~webhook_pattern_is_match(trimmed) THEN "InvalidWebhook"
    ELSE IF ByteLen(trimmed) > 500 THEN "Validation"
    ELSE "Ok"

UrlInit ==
    /\ ProgramInit
    /\ pure_call \in [fn : {"none"}, input : UrlInputs, output : {<<>>}, done : {FALSE}]

\* validate_webhook_url applied to the input
apply_validate_webhook_url ==
    /\ ~pure_call.done
    /\ pure_call' = [pure_call EXCEPT !.fn = "validate_webhook_url",
                        !.output = validate_webhook_url(pure_call.input),
                        !.done = TRUE]
    /\ UNCHANGED <<progress_state, request, drv, calls, events, temp_files, removed, nretry,
                   client, cmd_result>>

UrlNext == apply_validate_webhook_url

UrlSpec == UrlInit /\ [][UrlNext]_vars

\* the shape of the URL, the whitespace around it left aside: https, one of the
\* two hosts, /api/webhooks/, 17..19 digits, 60..80 chars of [A-Za-z0-9_-], at
\* most 500 characters
HasWebhookShape(url) ==
    /\ url.scheme = "https://"
    /\ url.host \in {"discord.com", "discordapp.com"}
    /\ url.path = "/api/webhooks/"
    /\ Len(url.id) \in 17..19
    /\ \A i \in 1..Len(url.id) : url.id[i] = "7"
    /\ Len(url.token) \in 60..80
    /\ \A i \in 1..Len(url.token) : url.token[i] \in {"7", "a", "_", "-"}
    /\ PartLen(url.scheme) + PartLen(url.host) + PartLen(url.path)
          + Len(url.id) + 1 + Len(url.token) <= 500

\* C27: validate_webhook_url accepts a URL exactly when it has the shape of a
\* Discord webhook URL, and rejects every other URL with an error.
C27_AcceptsExactlyWebhookUrls ==
    (pure_call.done /\ pure_call.fn = "validate_webhook_url") =>
        (pure_call.output = "Ok" <=> HasWebhookShape(pure_call.input))

\* C28: every image request of a group comes after a text-only request of that
\* group (the main text, sent by itself for the first chunk), and carries no
\* text fields itself.
C28_TextPrecedesImages ==
    \A i \in 1..Len(calls) :
        calls[i].kind = "images" =>
            /\ calls[i].fields = {}
            /\ \E j \in 1..(i - 1) :
                  calls[j].group = calls[i].group /\ calls[j].kind = "text"

\* C29: the size-based sub-chunks of a compressed chunk are sent in order; in a
\* forum session every sub-chunk after the first carries a thread_id; only the
\* first carries the text fields; after a sub-chunk the driver goes on to the
\* next one, to the success of the chunk after the last, or to the failure of
\* the chunk, sending nothing more.
C29_Step ==
    (drv.pc = "sub_chunk" /\ calls' # calls) =>
        LET sent == calls'[Len(calls')] IN
        /\ calls' = Append(calls, sent)
        /\ sent.files = drv.sub_chunks[drv.s]
        /\ sent.fields = IF drv.s = 1 THEN drv.text_fields ELSE {}
        /\ (request.is_forum_channel /\ drv.s > 1) => sent.thread_id # None
        /\ \/ drv'.pc = "sub_chunk" /\ drv'.s = drv.s + 1 /\ drv.s < Len(drv.sub_chunks)
           \/ drv'.pc = "chunk_ok" /\ drv.s = Len(drv.sub_chunks)
           \/ drv'.pc = "record_failures"

C29_SubChunksInOrderInThread == [][C29_Step]_vars

\* C30: in a forum group the thread_id is read from the response to the
\* group's first answered call; when the first chunk was sent as several
\* size-based sub-chunks, the response in hand after the chunk is that of the
\* last sub-chunk, and no thread_id is taken from it.
C30_Step ==
    (/\ drv.pc = "chunk_ok" /\ request.is_forum_channel
     /\ drv.thread_id = None /\ drv'.thread_id # None) =>
        Len(drv.sub_chunks) <= 1

C30_ThreadIdFromFirstResponse == [][C30_Step]_vars

(***************************************************************************)
(* upload_queue.rs: the chunking of a group's images, applied to groups of *)
(* up to MaxChunked images.                                                *)
(***************************************************************************)
MaxChunked == 12

\* a group's images: n distinct paths in order
RECURSIVE ImageList(_)
ImageList(n) ==
    IF n = 0 THEN <<>> ELSE Append(ImageList(n - 1), "img" \o NatToString(n) \o ".png")

ChunkInputs ==
    [images : {ImageList(n) : n \in 1..MaxChunked},
     max_images_per_message : {1, 2, 3, 10, 11, 12},
     is_forum_channel : BOOLEAN]

ChunkInit ==
    /\ ProgramInit
    /\ pure_call \in [fn : {"none"}, input : ChunkInputs, output : {<<>>},
                      done : {FALSE}]

\* effective_max_images and group.images.chunks(..) applied to the input
apply_chunks ==
    /\ ~pure_call.done
    /\ pure_call' = [pure_call EXCEPT
                        !.fn = "chunks",
                        !.output = Chunks(pure_call.input.images,
                                       effective_max_images_of(
                                           pure_call.input.is_forum_channel,
                                           pure_call.input.max_images_per_message)),
                        !.done = TRUE]
    /\ UNCHANGED <<progress_state, request, drv, calls, events, temp_files, removed, nretry,
                   client, cmd_result>>

ChunkNext == apply_chunks

ChunkSpec == ChunkInit /\ [][ChunkNext]_vars

\* min(user_max, 10) in a forum session, user_max otherwise
C31_EffectiveMax ==
    IF pure_call.input.is_forum_channel /\ pure_call.input.max_images_per_message > 10
    THEN 10 ELSE pure_call.input.max_images_per_message

\* C31: the chunks of a group are consecutive pieces of its images of at most
\* effective_max images, effective_max being min(user_max, 10) in a forum
\* session and user_max otherwise; every chunk but the last has exactly
\* effective_max images, none is empty, and the chunks concatenated in order
\* are the group's images in the order supplied.
C31_ChunksPartitionGroup ==
    (pure_call.done /\ pure_call.fn = "chunks") =>
        LET chunks == pure_call.output IN
        /\ Flatten(chunks) = pure_call.input.images
        /\ \A i \in 1..Len(chunks) :
              /\ Len(chunks[i]) >= 1
              /\ Len(chunks[i]) <= C31_EffectiveMax
              /\ i < Len(chunks) => Len(chunks[i]) = C31_EffectiveMax

\* a forum group of more than 10 images with user_max above 10 has been
\* chunked into a chunk of 10 images and a shorter last one
C31_Witness ==
    /\ pure_call.done /\ pure_call.fn = "chunks"
    /\ pure_call.input.is_forum_channel
    /\ pure_call.input.max_images_per_message > 10
    /\ Len(pure_call.output) = 2
    /\ Len(pure_call.output[1]) = 10
    /\ Len(pure_call.output[2]) < 10

(***************************************************************************)
(* upload_queue.rs: split_into_size_chunks applied to lists of up to       *)
(* MaxSplit files.                                                         *)
(***************************************************************************)
MaxSplit == 4

\* sizes, in MiB, std::fs::metadata reports for the files; 0 is also what an
\* unreadable file counts as
SplitSizes == {0, 3, 4, 7, 8}

SplitInputs ==
    UNION {[files : {ImageList(n)}, size : SeqsOfLen(SplitSizes, n)] : n \in 0..MaxSplit}

SplitInit ==
    /\ ProgramInit
    /\ pure_call \in [fn : {"none"}, input : SplitInputs, output : {<<>>},
                      done : {FALSE}]

\* split_into_size_chunks applied to the input
apply_split_into_size_chunks ==
    /\ ~pure_call.done
    /\ pure_call' = [pure_call EXCEPT
                        !.fn = "split_into_size_chunks",
                        !.output = split_into_size_chunks(pure_call.input.files,
                                                          pure_call.input.size),
                        !.done = TRUE]
    /\ UNCHANGED <<progress_state, request, drv, calls, events, temp_files, removed, nretry,
                   client, cmd_result>>

SplitNext == apply_split_into_size_chunks

SplitSpec == SplitInit /\ [][SplitNext]_vars

\* size of the file of the input named path
C32_SizeOf(path) ==
    pure_call.input.size[CHOOSE i \in 1..Len(pure_call.input.files) :
                             pure_call.input.files[i] = path]

RECURSIVE C32_Total(_)
C32_Total(chunk) ==
    IF chunk = <<>> THEN 0 ELSE C32_SizeOf(Head(chunk)) + C32_Total(Tail(chunk))

\* C32: the sub-chunks split_into_size_chunks returns are non-empty, their
\* concatenation is the input list in order, and the sizes of the files of a
\* sub-chunk add up to at most 7 MiB, except for a sub-chunk that is one single
\* file larger than 7 MiB.
C32_SizeChunksPartitionInput ==
    (pure_call.done /\ pure_call.fn = "split_into_size_chunks") =>
        LET chunks == pure_call.output IN
        /\ Flatten(chunks) = pure_call.input.files
        /\ \A i \in 1..Len(chunks) :
              /\ chunks[i] # <<>>
              /\ \/ C32_Total(chunks[i]) <= SAFE_CHUNK_SIZE_BYTES
                 \/ Len(chunks[i]) = 1

\* a list has been split into a sub-chunk of several files, a sub-chunk of one
\* file above the limit, and a sub-chunk after it
C32_Witness ==
    /\ pure_call.done /\ pure_call.fn = "split_into_size_chunks"
    /\ Len(pure_call.output) = 3
    /\ Len(pure_call.output[1]) = 2
    /\ C32_Total(pure_call.output[1]) = SAFE_CHUNK_SIZE_BYTES
    /\ C32_Total(pure_call.output[2]) > SAFE_CHUNK_SIZE_BYTES

\* C33: once Discord has accepted an image request of a chunk (the driver is
\* in the Ok arm of the chunk upload), the driver's next step starts recording
\* the chunk's images as successes, and each round of the success loop puts
\* its image in successful_uploads, whatever cancellations come in between.
C33_Step ==
    /\ (drv.pc = "chunk_ok" /\ drv' # drv) => drv'.pc = "record_success"
    /\ (drv.pc = "record_success" /\ drv' # drv) =>
          Chunk[drv.k] \in Range(progress_state'[SessionId].successful_uploads)

C33_DeliveredImagesAreRecorded == [][C33_Step]_vars

\* C34: in a forum session every request sent to Discord carries either a
\* thread_name or a thread_id.
C34_ForumCallsNameOrJoinThread ==
    request.is_forum_channel =>
        \A i \in 1..Len(calls) :
            "thread_name" \in calls[i].fields \/ calls[i].thread_id # None

(***************************************************************************)
(* The driver is a spawned task the runtime keeps polling; every request   *)
(* and file operation it awaits returns: each step of the driver that is   *)
(* continuously possible is eventually taken.                              *)
(***************************************************************************)
\* the commands around one driver: the start and the cancellations
FairNext ==
    \/ upload_images
    \/ Driver
    \/ \E sid \in SessionIds : cancel_upload_session(sid)

FairSpec == Init /\ [][FairNext]_vars /\ WF_vars(Driver)

C36_GroupTimestampIsEarliest ==
    (pure_call.done /\ pure_call.fn = "group_images_by_metadata") =>
        \A i \in 1..Len(pure_call.output) :
            LET g == pure_call.output[i] IN
            /\ \E p \in Range(g.images) : g.timestamp = TimestampOf(p)
            /\ \A p \in Range(g.images) : g.timestamp <= TimestampOf(p)

\* the images of the groups gs, group after group
C37_ImagesOf(gs) == Flatten([i \in 1..Len(gs) |-> gs[i].images])

\* s can be got from t by leaving elements out
RECURSIVE C37_IsSubsequence(_, _)
C37_IsSubsequence(s, t) ==
    IF s = <<>> THEN TRUE
    ELSE IF t = <<>> THEN FALSE
    ELSE \/ Head(s) = Head(t) /\ C37_IsSubsequence(Tail(s), Tail(t))
         \/ C37_IsSubsequence(s, Tail(t))

\* C37: the groups either grouper returns partition the input: every input
\* image is in exactly one group, as many times as the input holds it, no
\* group is empty, and the images of each group are in input order.
C37_GroupsPartitionInput ==
    pure_call.done =>
        LET gs == pure_call.output
            files == pure_call.input.files
        IN /\ Len(C37_ImagesOf(gs)) = Len(files)
           /\ \A p \in GrouperPaths :
                 Occurrences(C37_ImagesOf(gs), p) = Occurrences(files, p)
           /\ \A i \in 1..Len(gs) :
                 /\ gs[i].images # <<>>
                 /\ C37_IsSubsequence(gs[i].images, files)

\* three distinct images were grouped by world into two groups, one of them
\* holding the first and the last image of the input
C37_Witness ==
    /\ pure_call.done /\ pure_call.fn = "group_images_by_metadata"
    /\ Len(pure_call.input.files) = 3
    /\ Len(pure_call.output) = 2
    /\ \E i \in 1..2 :
          pure_call.output[i].images = <<pure_call.input.files[1], pure_call.input.files[3]>>
    /\ pure_call.input.files[1] # pure_call.input.files[3]

(***************************************************************************)
(* image_groups.rs: the texts of a group's first message. A text is the    *)
(* sequence of the pieces pushed to it, each with its length in bytes; a   *)
(* player is known by its place in all_players.                            *)
(***************************************************************************)
MaxPlayers == 3

\* MAX_LENGTH of both composer functions
MAX_LENGTH == 1900

\* a fixed piece of text of n bytes
Lit(text, n) == [text |-> text, player |-> 0, len |-> n]

\* String::len of a text
RECURSIVE TextLen(_)
TextLen(content) ==
    IF content = <<>> THEN 0 ELSE Head(content).len + TextLen(Tail(content))

\* bytes of format!("{}", n)
RECURSIVE DigitsLen(_)
DigitsLen(n) == IF n < 10 THEN 1 ELSE 1 + DigitsLen(n \div 10)

\* format!("**{}**", player.display_name)
player_str(player) == [text |-> "**display_name**", player |-> player.id,
                       len |-> 2 + player.display_name_len + 2]

\* one element of world_parts:
\* "**{name}** ([VRChat](<https://vrchat.com/home/launch?worldId={id}>), 
\*   [VRCX](<https://vrcx.azurewebsites.net/world/{id}>))"
world_part(world) == Lit("world", 107 + world.name_len + 2 * world.id_len)

\* world_parts.join(", ")
RECURSIVE JoinWorlds(_)
JoinWorlds(all_worlds) ==
    IF all_worlds = <<>> THEN <<>>
    ELSE IF Len(all_worlds) = 1 THEN <<world_part(all_worlds[1])>>
    ELSE <<world_part(Head(all_worlds)), Lit(", ", 2)>> \o JoinWorlds(Tail(all_worlds))

\* every player from player i on is added, whatever the length
AddEveryPlayer(content, all_players, i) ==
    [content |-> content \o Flatten([j \in 1..(Len(all_players) - i + 1) |->
                                        <<Lit(", ", 2), player_str(all_players[i + j - 1])>>]),
     remaining_players |-> <<>>]

\* the loop over all_players.iter().skip(1), from player i on
RECURSIVE AddPlayers(_, _, _)
AddPlayers(content, all_players, i) ==
    IF i > Len(all_players)
    THEN [content |-> content, remaining_players |-> <<>>]
    ELSE LET addition == <<Lit(", ", 2), player_str(all_players[i])>> IN
         IF TextLen(content) + TextLen(addition) > MAX_LENGTH
         THEN [content |-> Append(content, Lit(",", 1)),
               remaining_players |-> SubSeq(all_players, i, Len(all_players))]
         ELSE AddPlayers(content \o addition, all_players, i + 1)

\* create_message_content_with_players; timestamp is <<>> or <<ts>>
create_message_content_with_players(all_worlds, all_players, timestamp, include_player_names) ==
    IF all_worlds # <<>>
    THEN LET located == <<Lit("Photos taken at ", 21)>> \o JoinWorlds(all_worlds)
             content == IF timestamp # <<>>
                        THEN Append(located, Lit(" at <t:{}:f>",
                                                 7 + DigitsLen(timestamp[1]) + 3))
                        ELSE located
         IN IF include_player_names /\ all_players # <<>>
            THEN LET first_player == player_str(all_players[1])
                     with_prefix == Lit(" with ", 6)
                 IN IF TextLen(content) + with_prefix.len + first_player.len <= MAX_LENGTH
                    THEN LET r == AddPlayers(content \o <<with_prefix, first_player>>,
                                             all_players, 2)
                         IN [content |-> r.content,
                             remaining_players |-> r.remaining_players,
                             had_players_in_main |-> TRUE]
                    ELSE [content |-> content, remaining_players |-> all_players,
                          had_players_in_main |-> FALSE]
            ELSE [content |-> content, remaining_players |-> <<>>,
                  had_players_in_main |-> FALSE]
    ELSE [content |-> IF timestamp # <<>>
                      THEN <<Lit("Photos", 11),
                             Lit(" taken at <t:{}:f>", 13 + DigitsLen(timestamp[1]) + 3)>>
                      ELSE <<Lit("Photos", 11)>>,
          remaining_players |-> <<>>,
          had_players_in_main |-> FALSE]

\* the loop of create_overflow_player_messages from player i on, then the push
\* of the last message
RECURSIVE OverflowFrom(_, _, _, _, _, _)
OverflowFrom(remaining_players, had_players_in_main, prefix_len, i, messages, current) ==
    IF i > Len(remaining_players)
    THEN IF TextLen(current) > prefix_len \/ (~had_players_in_main /\ current # <<>>)
         THEN Append(messages, current) ELSE messages
    ELSE LET p == player_str(remaining_players[i])
             addition == IF TextLen(current) > prefix_len THEN <<Lit(", ", 2), p>>
                         ELSE <<p>>
         IN IF /\ TextLen(current) > prefix_len
               /\ TextLen(current) + TextLen(addition) > MAX_LENGTH
            THEN OverflowFrom(remaining_players, had_players_in_main, prefix_len, i + 1,
                              Append(messages, Append(current, Lit(",", 1))), <<p>>)
            ELSE OverflowFrom(remaining_players, had_players_in_main, prefix_len, i + 1,
                              messages, current \o addition)

create_overflow_player_messages(remaining_players, had_players_in_main) ==
    LET current == IF ~had_players_in_main THEN <<Lit("with ", 5)>> ELSE <<>> IN
    OverflowFrom(remaining_players, had_players_in_main, TextLen(current), 1, <<>>, current)

\* create_discord_payload for a first message: the content and the overflow
\* messages
first_message_texts(all_worlds, all_players, timestamp, include_player_names) ==
    LET main == create_message_content_with_players(all_worlds, all_players, timestamp,
                                                    include_player_names)
    IN [content |-> main.content,
        overflow_messages |->
            IF main.remaining_players # <<>>
            THEN create_overflow_player_messages(main.remaining_players,
                                                 main.had_players_in_main)
            ELSE <<>>]

\* a world with a name of n bytes and an id "wrld_" and a UUID
World(n) == [name_len |-> n, id_len |-> 41]

\* no world, one world, one world with a name that brings the text to 1880
\* bytes, nine worlds
ComposerWorlds ==
    {<<>>, <<World(20)>>, <<World(1670)>>, [i \in 1..9 |-> World(20)]}

\* lengths in bytes of the display names
DisplayNameLens == {1, 3, 10, 11, 1896}

\* players 1..n in order, with display names of the given lengths
ComposerPlayers ==
    UNION {{[i \in 1..n |-> [id |-> i, display_name_len |-> lens[i]]] :
                lens \in [1..n -> DisplayNameLens]} : n \in 0..MaxPlayers}

ComposerInputs ==
    [all_worlds : ComposerWorlds, all_players : ComposerPlayers,
     timestamp : {<<>>, <<500>>}, include_player_names : BOOLEAN]

ComposerInit ==
    /\ ProgramInit
    /\ pure_call \in [fn : {"none"}, input : ComposerInputs, output : {<<>>},
                      done : {FALSE}]

\* create_discord_payload applied to the input as a first message
apply_create_discord_payload ==
    /\ ~pure_call.done
    /\ pure_call' = [pure_call EXCEPT
                        !.fn = "create_discord_payload",
                        !.output = first_message_texts(pure_call.input.all_worlds,
                                       pure_call.input.all_players,
                                       pure_call.input.timestamp,
                                       pure_call.input.include_player_names),
                        !.done = TRUE]
    /\ UNCHANGED <<progress_state, request, drv, calls, events, temp_files, removed, nretry,
                   client, cmd_result>>

ComposerNext == apply_create_discord_payload

ComposerSpec == ComposerInit /\ [][ComposerNext]_vars

\* the players named in a text, in order
C38_PlayersIn(text) ==
    LET named == SelectSeq(text, LAMBDA piece : piece.player # 0)
    IN [i \in 1..Len(named) |-> named[i].player]

\* a text without its continuation comma
C38_WithoutComma(text) == SelectSeq(text, LAMBDA piece : piece.text # ",")

C39_TextsWithinLimit ==
    pure_call.done =>
        /\ TextLen(pure_call.output.content) <= MAX_LENGTH
        /\ \A i \in 1..Len(pure_call.output.overflow_messages) :
              TextLen(pure_call.output.overflow_messages[i]) <= MAX_LENGTH

C40_InputFilesAreNeverRemoved ==
    /\ removed \cap Paths = {}
    /\ removed \cap Range(request.file_paths) = {}

\* the compression of one file of a chunk failed and the original path was
\* sent next to a compressed file, and the cleanup has removed the compressed
\* file
C40_Witness ==
    /\ removed # {}
    /\ temp_files = {}
    /\ \E i \in 1..Len(calls) :
          /\ Range(calls[i].files) \cap Range(request.file_paths) # {}
          /\ Range(calls[i].files) \cap removed # {}

====
